---- MODULE Spec2Model ----
(***************************************************************************)
(* Model of cli/cli.go of s3sync: GetCliArgs, parseConn and parseBandwith. *)
(*                                                                         *)
(* A Go string is a sequence of one-character strings.  A machine integer  *)
(* is a little-endian sequence of bytes (two's complement), so that the    *)
(* width of Go's int is kept and products wrap as they do in the binary.   *)
(***************************************************************************)
EXTENDS Integers, Sequences, FiniteSets, TLC

VARIABLES
    intSize,     \* strconv.IntSize of the build: width of Go's int in bits
    callPc,      \* position of a direct call of parseConn / parseBandwith
    callArg,     \* the string handed to that call
    callRet,     \* what the call returned
    raw,         \* rawCli after arg.MustParse (cli.args)
    isTerminal,  \* isatty.IsTerminal(os.Stdout.Fd())
    godebug,     \* the GODEBUG variable of the process environment
    godebug0,    \* GODEBUG as it was when the current call started
    pc,          \* position inside GetCliArgs
    cli,         \* the argsParsed value being filled in
    outcome,     \* how the current call ended
    launchEnv,   \* GODEBUG as the process inherits it when it is launched
    run,         \* number of the current call of GetCliArgs
    first        \* outcome and argsParsed of the first call

vars == <<intSize, callPc, callArg, callRet, raw, isTerminal, godebug,
          godebug0, pc, cli, outcome, launchEnv, run, first>>

-----------------------------------------------------------------------------
(* Bounds of the model *)

\* longest free-form part of an endpoint string
MaxConnLen == 3
\* longest bandwidth string built from BwChars
MaxBwLen == 3
\* number of calls of GetCliArgs on the same raw options
MaxRuns == 2

-----------------------------------------------------------------------------
(* Characters and strings *)

\* printable ASCII, 0x20 .. 0x7e (the grave accent 0x60 is written \x60)
Ascii ==
    <<" ", "!", "\"", "#", "$", "%", "&", "'", "(", ")", "*", "+", ",", "-",
      ".", "/", "0", "1", "2", "3", "4", "5", "6", "7", "8", "9", ":", ";",
      "<", "=", ">", "?", "@", "A", "B", "C", "D", "E", "F", "G", "H", "I",
      "J", "K", "L", "M", "N", "O", "P", "Q", "R", "S", "T", "U", "V", "W",
      "X", "Y", "Z", "[", "\\", "]", "^", "_", "\\x60", "a", "b", "c", "d", "e",
      "f", "g", "h", "i", "j", "k", "l", "m", "n", "o", "p", "q", "r", "s",
      "t", "u", "v", "w", "x", "y", "z", "{", "|", "}", "~">>

AsciiChars == {Ascii[i] : i \in 1..Len(Ascii)}

\* byte value of a character
Ord ==
    [c \in AsciiChars \cup {"\t", "\n"} |->
        IF c = "\t" THEN 9
        ELSE IF c = "\n" THEN 10
        ELSE 31 + (CHOOSE i \in 1..Len(Ascii) : Ascii[i] = c)]

\* character of a byte value; bytes outside printable ASCII keep their value
Chr(n) ==
    IF n \in 32..126 THEN Ascii[n - 31]
    ELSE IF n = 9 THEN "\t"
    ELSE IF n = 10 THEN "\n"
    ELSE "\\x" \o ToString(n)

IsLower(c) == c \in AsciiChars /\ Ord[c] \in Ord["a"]..Ord["z"]
IsUpper(c) == c \in AsciiChars /\ Ord[c] \in Ord["A"]..Ord["Z"]
IsLetter(c) == IsLower(c) \/ IsUpper(c)
IsDigitChar(c) == c \in AsciiChars /\ Ord[c] \in Ord["0"]..Ord["9"]

Max(a, b) == IF a >= b THEN a ELSE b

\* s[i:] and s[:i] with Go's 0-based offsets
From(s, i) == SubSeq(s, i + 1, Len(s))
Upto(s, i) == SubSeq(s, 1, i)

HasPrefix(s, p) == Len(s) >= Len(p) /\ SubSeq(s, 1, Len(p)) = p
TrimPrefix(s, p) == IF HasPrefix(s, p) THEN From(s, Len(p)) ELSE s

\* strings.Index: 0-based offset of the first occurrence of p in s, or -1
Index(s, p) ==
    LET hits == {i \in 0..(Len(s) - Len(p)) : HasPrefix(From(s, i), p)}
    IN IF hits = {} THEN -1 ELSE CHOOSE i \in hits : \A j \in hits : i <= j

LastIndex(s, p) ==
    LET hits == {i \in 0..(Len(s) - Len(p)) : HasPrefix(From(s, i), p)}
    IN IF hits = {} THEN -1 ELSE CHOOSE i \in hits : \A j \in hits : i >= j

Contains(s, p) == Index(s, p) >= 0

\* strings.Cut
Cut(s, sep) ==
    LET i == Index(s, sep)
    IN IF i >= 0
       THEN [before |-> Upto(s, i), after |-> From(s, i + Len(sep)), found |-> TRUE]
       ELSE [before |-> s, after |-> <<>>, found |-> FALSE]

ToLowerChar(c) == IF IsUpper(c) THEN Chr(Ord[c] + 32) ELSE c
ToLower(s) == [i \in 1..Len(s) |-> ToLowerChar(s[i])]

\* unicode.IsSpace on the characters of the model
IsSpace(c) == c \in {" ", "\t", "\n"}

RECURSIVE TrimLeft(_)
TrimLeft(s) ==
    IF s # <<>> /\ IsSpace(s[1]) THEN TrimLeft(Tail(s)) ELSE s

RECURSIVE TrimRight(_)
TrimRight(s) ==
    IF s # <<>> /\ IsSpace(s[Len(s)]) THEN TrimRight(Upto(s, Len(s) - 1)) ELSE s

TrimSpace(s) == TrimRight(TrimLeft(s))

\* all strings over the characters cs up to length n
RECURSIVE Strings(_, _)
Strings(cs, n) ==
    IF n = 0 THEN {<<>>}
    ELSE LET shorter == Strings(cs, n - 1)
         IN shorter \cup {Append(s, c) : s \in {t \in shorter : Len(t) = n - 1}, c \in cs}

-----------------------------------------------------------------------------
(* Machine integers: little-endian byte sequences *)

\* bytes of the exact (unbounded) arithmetic of the model
BigBytes == 16

Zero(n) == [i \in 1..n |-> 0]

\* x * k + c for a small k and c, on n bytes (high carry dropped)
RECURSIVE MulAddFrom(_, _, _, _)
MulAddFrom(x, k, c, i) ==
    IF i > Len(x) THEN <<>>
    ELSE LET t == x[i] * k + c
         IN <<t % 256>> \o MulAddFrom(x, k, t \div 256, i + 1)

MulAdd(x, k, c) == MulAddFrom(x, k, c, 1)

\* the natural number v (small) on n bytes
FromNat(v, n) == MulAdd(Zero(n), 0, v)

\* x + y on Len(x) bytes, y shifted left by sh bytes (high carry dropped)
RECURSIVE AddShiftedFrom(_, _, _, _, _)
AddShiftedFrom(x, y, sh, c, i) ==
    IF i > Len(x) THEN <<>>
    ELSE LET yi == IF i - sh >= 1 /\ i - sh <= Len(y) THEN y[i - sh] ELSE 0
             t == x[i] + yi + c
         IN <<t % 256>> \o AddShiftedFrom(x, y, sh, t \div 256, i + 1)

\* x * y on n bytes: the product modulo 2^(8n)
RECURSIVE MulFrom(_, _, _, _)
MulFrom(x, y, n, j) ==
    IF j > Len(y) \/ j > n THEN Zero(n)
    ELSE AddShiftedFrom(MulFrom(x, y, n, j + 1),
                        MulAdd(x, y[j], 0), j - 1, 0, 1)

Mul(x, y, n) == MulFrom(x, y, n, 1)

\* the low n bytes of x, zero-extended when x is shorter
Truncate(x, n) == [i \in 1..n |-> IF i <= Len(x) THEN x[i] ELSE 0]

\* sign bit of a two's complement value
IsNegative(x) == x[Len(x)] >= 128

\* comparison of natural numbers of equal length
RECURSIVE LessFrom(_, _, _)
LessFrom(x, y, i) ==
    IF i = 0 THEN FALSE
    ELSE IF x[i] # y[i] THEN x[i] < y[i]
    ELSE LessFrom(x, y, i - 1)

Less(x, y) == LessFrom(x, y, Len(x))

\* 2^(bits - 1) on BigBytes bytes: the least natural number an int of that
\* width cannot hold
MinOverflow(bits) ==
    [i \in 1..BigBytes |-> IF i = bits \div 8 THEN 128 ELSE 0]

\* two's complement negation
Negate(x) == MulAdd([i \in 1..Len(x) |-> 255 - x[i]], 1, 1)

-----------------------------------------------------------------------------
(* strconv *)

\* the value of a run of decimal digits, on BigBytes bytes
RECURSIVE ParseDec(_, _)
ParseDec(s, acc) ==
    IF s = <<>> THEN acc
    ELSE ParseDec(Tail(s), MulAdd(acc, 10, Ord[s[1]] - Ord["0"]))

\* strconv.Atoi: the digits ds after the sign, their value n
AtoiOf(ds, neg, n, bits) ==
    IF ds = <<>> \/ \E i \in 1..Len(ds) : ~IsDigitChar(ds[i])
    THEN [err |-> "invalid syntax", val |-> Zero(bits \div 8)]
    ELSE IF (~neg /\ ~Less(n, MinOverflow(bits)))
            \/ (neg /\ Less(MinOverflow(bits), n))
    THEN [err |-> "value out of range", val |-> Zero(bits \div 8)]
    ELSE [err |-> "",
          val |-> Truncate(IF neg THEN Negate(n) ELSE n, bits \div 8)]

\* strconv.Atoi: the digits ds after the sign
AtoiDigits(ds, neg, bits) ==
    AtoiOf(ds, neg,
           IF \E i \in 1..Len(ds) : ~IsDigitChar(ds[i]) THEN Zero(BigBytes)
           ELSE ParseDec(ds, Zero(BigBytes)),
           bits)

\* strconv.Atoi for an int of the given width
Atoi(s, bits) ==
    IF s # <<>> /\ s[1] \in {"+", "-"}
    THEN AtoiDigits(Tail(s), s[1] = "-", bits)
    ELSE AtoiDigits(s, FALSE, bits)

-----------------------------------------------------------------------------
(* parseBandwith *)

\* the loop over the runes of s: the digits gathered and the multiplier of the
\* last unit letter, or a failure on the first other character
RECURSIVE ScanBandwith(_, _, _)
ScanBandwith(s, digits, multiplier) ==
    IF s = <<>> THEN [ok |-> TRUE, digits |-> digits, multiplier |-> multiplier]
    ELSE LET r == s[1]
         IN IF IsDigitChar(r) THEN ScanBandwith(Tail(s), Append(digits, r), multiplier)
            ELSE IF IsSpace(r) THEN ScanBandwith(Tail(s), digits, multiplier)
            ELSE IF r \in {"k", "K"} THEN ScanBandwith(Tail(s), digits, 1024)
            ELSE IF r \in {"m", "M"} THEN ScanBandwith(Tail(s), digits, 1024 * 1024)
            ELSE IF r \in {"g", "G"} THEN ScanBandwith(Tail(s), digits, 1024 * 1024 * 1024)
            ELSE [ok |-> FALSE, digits |-> digits, multiplier |-> multiplier]

\* parseBandwith after strconv.Atoi returned rate
RateOf(rate, multiplier, bits) ==
    IF rate.err # "" THEN [rate |-> Zero(bits \div 8), ok |-> FALSE]
    ELSE [rate |-> Mul(rate.val, FromNat(multiplier, bits \div 8), bits \div 8),
          ok |-> TRUE]

\* parseBandwith after its loop ended with scan
ScannedRate(scan, bits) ==
    IF ~scan.ok THEN [rate |-> Zero(bits \div 8), ok |-> FALSE]
    ELSE RateOf(Atoi(scan.digits, bits), scan.multiplier, bits)

parseBandwith(s, bits) ==
    IF s = <<>> THEN [rate |-> Zero(bits \div 8), ok |-> TRUE]
    ELSE ScannedRate(ScanBandwith(TrimSpace(s), <<>>, 1), bits)

-----------------------------------------------------------------------------
(* net/url, as far as url.Parse is used by parseConn *)

IsHex(c) ==
    \/ IsDigitChar(c)
    \/ c \in AsciiChars /\ Ord[c] \in Ord["a"]..Ord["f"]
    \/ c \in AsciiChars /\ Ord[c] \in Ord["A"]..Ord["F"]

Unhex(c) ==
    IF IsDigitChar(c) THEN Ord[c] - Ord["0"]
    ELSE IF IsLower(c) THEN Ord[c] - Ord["a"] + 10
    ELSE Ord[c] - Ord["A"] + 10

\* b < ' ' || b == 0x7f for some byte of s
StringContainsCTLByte(s) ==
    \E i \in 1..Len(s) : s[i] \notin AsciiChars

\* shouldEscape(c, encodeHost)
ShouldEscapeHost(c) ==
    /\ ~(IsLetter(c) \/ IsDigitChar(c))
    /\ c \notin {"!", "$", "&", "'", "(", ")", "*", "+", ",", ";", "=", ":",
                 "[", "]", "<", ">", "\""}
    /\ c \notin {"-", "_", ".", "~"}

\* shouldEscape(v, encodeHost) for a decoded byte v
ShouldEscapeHostByte(v) ==
    IF v \in 32..126 THEN ShouldEscapeHost(Chr(v)) ELSE TRUE

\* the checking pass of unescape: the error it returns, "" for none
RECURSIVE UnescapeErr(_, _)
UnescapeErr(s, mode) ==
    IF s = <<>> THEN ""
    ELSE IF s[1] = "%"
    THEN IF Len(s) < 3 \/ ~IsHex(s[2]) \/ ~IsHex(s[3])
         THEN "invalid URL escape"
         ELSE IF /\ mode = "encodeHost"
                 /\ Unhex(s[2]) < 8
                 /\ Upto(s, 3) # <<"%", "2", "5">>
         THEN "invalid URL escape"
         ELSE IF /\ mode = "encodeZone"
                 /\ Upto(s, 3) # <<"%", "2", "5">>
                 /\ Unhex(s[2]) * 16 + Unhex(s[3]) # Ord[" "]
                 /\ ShouldEscapeHostByte(Unhex(s[2]) * 16 + Unhex(s[3]))
         THEN "invalid URL escape"
         ELSE UnescapeErr(From(s, 3), mode)
    ELSE IF /\ mode \in {"encodeHost", "encodeZone"}
            /\ s[1] # "+"
            /\ ShouldEscapeHost(s[1])
    THEN "invalid character in host name"
    ELSE UnescapeErr(Tail(s), mode)

\* the decoding pass of unescape (no mode of parseConn turns '+' into ' ')
RECURSIVE UnescapeText(_)
UnescapeText(s) ==
    IF s = <<>> THEN <<>>
    ELSE IF s[1] = "%"
    THEN <<Chr(Unhex(s[2]) * 16 + Unhex(s[3]))>> \o UnescapeText(From(s, 3))
    ELSE <<s[1]>> \o UnescapeText(Tail(s))

\* what unescape returns after its checking pass ended with the error e
UnescapeResult(e, s) ==
    IF e # "" THEN [err |-> e, text |-> <<>>]
    ELSE [err |-> "", text |-> UnescapeText(s)]

unescape(s, mode) == UnescapeResult(UnescapeErr(s, mode), s)

RECURSIVE GetSchemeFrom(_, _)
GetSchemeFrom(rawURL, i) ==
    IF i >= Len(rawURL) THEN [err |-> "", scheme |-> <<>>, path |-> rawURL]
    ELSE IF IsLetter(rawURL[i + 1]) THEN GetSchemeFrom(rawURL, i + 1)
    ELSE IF IsDigitChar(rawURL[i + 1]) \/ rawURL[i + 1] \in {"+", "-", "."}
    THEN IF i = 0 THEN [err |-> "", scheme |-> <<>>, path |-> rawURL]
         ELSE GetSchemeFrom(rawURL, i + 1)
    ELSE IF rawURL[i + 1] = ":"
    THEN IF i = 0
         THEN [err |-> "missing protocol scheme", scheme |-> <<>>, path |-> <<>>]
         ELSE [err |-> "", scheme |-> Upto(rawURL, i), path |-> From(rawURL, i + 1)]
    ELSE [err |-> "", scheme |-> <<>>, path |-> rawURL]

getScheme(rawURL) == GetSchemeFrom(rawURL, 0)

validOptionalPort(port) ==
    IF port = <<>> THEN TRUE
    ELSE IF port[1] # ":" THEN FALSE
    ELSE \A i \in 2..Len(port) : IsDigitChar(port[i])

validUserinfo(s) ==
    \A i \in 1..Len(s) :
        \/ IsLetter(s[i])
        \/ IsDigitChar(s[i])
        \/ s[i] \in {"-", ".", "_", ":", "~", "!", "$", "&", "'", "(", ")",
                     "*", "+", ",", ";", "=", "%", "@"}

HostError(e) == [err |-> e, host |-> <<>>]

\* parseHost: the host is the unescaped text u
HostOf(u) == [err |-> u.err, host |-> u.text]

\* parseHost: an IP literal with a zone, unescaped in three parts
JoinHost(host1, host2, host3) ==
    IF host1.err # "" THEN HostError(host1.err)
    ELSE IF host2.err # "" THEN HostError(host2.err)
    ELSE IF host3.err # "" THEN HostError(host3.err)
    ELSE [err |-> "", host |-> host1.text \o host2.text \o host3.text]

\* parseHost: an IP literal whose ']' is at offset close and whose "%25" is
\* at offset zone
ZoneHost(host, close, zone) ==
    IF zone >= 0
    THEN JoinHost(unescape(Upto(host, zone), "encodeHost"),
                  unescape(SubSeq(host, zone + 1, close), "encodeZone"),
                  unescape(From(host, close), "encodeHost"))
    ELSE HostOf(unescape(host, "encodeHost"))

\* parseHost: a host that starts with '[', its last ']' at offset close
IPLiteralHost(host, close) ==
    IF close < 0 THEN HostError("missing ']' in host")
    ELSE IF ~validOptionalPort(From(host, close + 1))
    THEN HostError("invalid port after host")
    ELSE ZoneHost(host, close, Index(Upto(host, close), <<"%", "2", "5">>))

\* parseHost: any other host, its last ':' at offset colon
NamedHost(host, colon) ==
    IF colon # -1 /\ ~validOptionalPort(From(host, colon))
    THEN HostError("invalid port after host")
    ELSE HostOf(unescape(host, "encodeHost"))

parseHost(host) ==
    IF HasPrefix(host, <<"[">>)
    THEN IPLiteralHost(host, LastIndex(host, <<"]">>))
    ELSE NamedHost(host, LastIndex(host, <<":">>))

\* parseAuthority: the user name and the password unescaped with the errors
\* e1 and e2
UserinfoChecked(h, e1, e2) ==
    IF e1 # "" THEN HostError(e1)
    ELSE IF e2 # "" THEN HostError(e2)
    ELSE h

\* parseAuthority: the host parsed as h, the userinfo cut at its first ':'
UserinfoCut(h, up) ==
    UserinfoChecked(h, UnescapeErr(up.before, "encodeUserPassword"),
                    UnescapeErr(up.after, "encodeUserPassword"))

\* parseAuthority: the host parsed as h, the last '@' at offset i
AuthorityOf(authority, i, h) ==
    IF h.err # "" THEN h
    ELSE IF i < 0 THEN h
    ELSE IF ~validUserinfo(Upto(authority, i))
    THEN HostError("net/url: invalid userinfo")
    ELSE UserinfoCut(h, Cut(Upto(authority, i), <<":">>))

\* parseAuthority: the last '@' at offset i
AuthorityAt(authority, i) ==
    AuthorityOf(authority, i,
                parseHost(IF i < 0 THEN authority ELSE From(authority, i + 1)))

parseAuthority(authority) == AuthorityAt(authority, LastIndex(authority, <<"@">>))

URLError(e) ==
    [err |-> e, Scheme |-> <<>>, Opaque |-> <<>>, Host |-> <<>>, Path |-> <<>>]

\* parse: setPath, after the host has been set
WithPath(scheme, host, path) ==
    IF path.err # "" THEN URLError(path.err)
    ELSE [err |-> "", Scheme |-> scheme, Opaque |-> <<>>, Host |-> host,
          Path |-> path.text]

\* parse: the authority parsed as a, the path that follows it
WithAuthority(scheme, a, rest) ==
    IF a.err # "" THEN URLError(a.err)
    ELSE WithPath(scheme, a.host, unescape(rest, "encodePath"))

\* parse: what follows "//", its first '/' at offset i
SplitAuthority(scheme, afterSlashes, i) ==
    IF i >= 0
    THEN WithAuthority(scheme, parseAuthority(Upto(afterSlashes, i)),
                       From(afterSlashes, i))
    ELSE WithAuthority(scheme, parseAuthority(afterSlashes), <<>>)

\* parse: the part after the scheme, the query cut off
ParseRest(scheme, rest) ==
    IF ~HasPrefix(rest, <<"/">>) /\ scheme # <<>>
    THEN [URLError("") EXCEPT !.Scheme = scheme, !.Opaque = rest]
    ELSE IF /\ ~HasPrefix(rest, <<"/">>)
            /\ Contains(Cut(rest, <<"/">>).before, <<":">>)
    THEN URLError("first path segment in URL cannot contain colon")
    ELSE IF /\ scheme # <<>> \/ ~HasPrefix(rest, <<"/", "/", "/">>)
            /\ HasPrefix(rest, <<"/", "/">>)
    THEN SplitAuthority(scheme, From(rest, 2), Index(From(rest, 2), <<"/">>))
    ELSE WithPath(scheme, <<>>, unescape(rest, "encodePath"))

\* parse: after getScheme returned sch
ParseScheme(sch) ==
    IF sch.err # "" THEN URLError(sch.err)
    ELSE ParseRest(ToLower(sch.scheme), Cut(sch.path, <<"?">>).before)

\* url.parse(rawURL, viaRequest = false)
parse(rawURL) ==
    IF StringContainsCTLByte(rawURL)
    THEN URLError("net/url: invalid control character in URL")
    ELSE IF rawURL = <<"*">>
    THEN [URLError("") EXCEPT !.Path = <<"*">>]
    ELSE ParseScheme(getScheme(rawURL))

\* url.Parse: setFragment, after the part before '#' parsed as url
WithFragment(url, frag, e) ==
    IF url.err # "" THEN url
    ELSE IF frag = <<>> THEN url
    ELSE IF e # "" THEN URLError(e)
    ELSE url

\* url.Parse: rawURL cut at its first '#'
ParseCut(c) ==
    WithFragment(parse(c.before), c.after, UnescapeErr(c.after, "encodeFragment"))

\* url.Parse
Parse(rawURL) == ParseCut(Cut(rawURL, <<"#">>))

-----------------------------------------------------------------------------
(* parseConn *)

\* the zero value of connect
ZeroConn == [Type |-> "", Bucket |-> <<>>, Path |-> <<>>]

\* parseConn after url.Parse returned u
ConnOf(cStr, u) ==
    IF u.err # "" THEN [err |-> u.err, conn |-> ZeroConn]
    ELSE IF u.Scheme = <<"s", "3">>
    THEN [err |-> "",
          conn |-> [Type |-> "TypeS3", Bucket |-> u.Host,
                    Path |-> TrimPrefix(u.Path, <<"/">>)]]
    ELSE IF u.Scheme = <<"f", "s">>
    THEN [err |-> "",
          conn |-> [Type |-> "TypeFS", Bucket |-> <<>>,
                    Path |-> TrimPrefix(cStr, <<"f", "s", ":", "/", "/">>)]]
    ELSE [err |-> "",
          conn |-> [Type |-> "TypeFS", Bucket |-> <<>>, Path |-> cStr]]

parseConn(cStr) == ConnOf(cStr, Parse(cStr))

-----------------------------------------------------------------------------
(* strconv.ParseUint and time *)

\* value of a digit or letter as strconv reads it, 255 for any other byte
DigitValue(c) ==
    IF IsDigitChar(c) THEN Ord[c] - Ord["0"]
    ELSE IF IsLetter(c) THEN Ord[ToLowerChar(c)] - Ord["a"] + 10
    ELSE 255

\* the digits of s in the given base, accumulated on 8 bytes; a value that
\* needs more than 32 bits is out of range
RECURSIVE ParseUintFrom(_, _, _)
ParseUintFrom(s, base, n) ==
    IF s = <<>> THEN [err |-> "", val |-> n]
    ELSE IF DigitValue(s[1]) >= base
    THEN [err |-> "invalid syntax", val |-> Zero(8)]
    ELSE LET n1 == MulAdd(n, base, DigitValue(s[1]))
         IN IF \E i \in 5..8 : n1[i] # 0
            THEN [err |-> "value out of range", val |-> Zero(8)]
            ELSE ParseUintFrom(Tail(s), base, n1)

\* strconv.ParseUint(s, base, 32) for an explicit base
ParseUint32(s, base) ==
    IF s = <<>> THEN [err |-> "invalid syntax", val |-> Zero(8)]
    ELSE ParseUintFrom(s, base, Zero(8))

\* time.Second in nanoseconds
Second == 1000000000

-----------------------------------------------------------------------------
(* GetCliArgs *)

onFailFatal == 0
onFailSkip == 1
onFailSkipMissing == 2

\* the messages handed to p.Fail
MsgAcl == "--acl must be one of \"private, public-read, public-read-write, aws-exec-read, authenticated-read, bucket-owner-read, bucket-owner-full-control\""
MsgOnFail == "--on-fail must be one of \"fatal, skip, skipmissing\""
MsgBandwidth == "Invalid value of (--ratelimit-bandwidth) arg"
MsgTTY == "Progress (--sync-progress) require tty"
MsgFilePerm == "Failed to parse arg --fs-file-perm"
MsgDirPerm == "Failed to parse arg --fs-dir-perm"
MsgXattr == "Filter modified files (--filter-modified) required xattr"

\* the fields of args that GetCliArgs reads, with the defaults it sets before
\* arg.MustParse (options compared as a whole are TLA+ strings, options that
\* are scanned are character sequences)
DefaultArgs ==
    [S3Acl |-> "private", OnFail |-> "fatal", RateLimitBandwidth |-> <<>>,
     S3RetryInterval |-> 0, Source |-> <<>>, Target |-> <<>>,
     ShowProgress |-> FALSE, FSFilePerm |-> <<"0", "6", "4", "4">>,
     FSDirPerm |-> <<"0", "7", "5", "5">>, DisableHTTP2 |-> FALSE,
     FilterModified |-> FALSE, FSDisableXattr |-> FALSE]

\* the zero value of argsParsed around the parsed arguments
NewCli(a) ==
    [args |-> a, Source |-> ZeroConn, Target |-> ZeroConn,
     S3RetryInterval |-> Zero(8), OnFail |-> 0, FSFilePerm |-> Zero(4),
     FSDirPerm |-> Zero(4), RateLimitBandwidth |-> Zero(intSize \div 8)]

Running == [kind |-> "running", msg |-> ""]

\* p.Fail: print the usage and the message, then exit the process
Fail(msg) ==
    /\ pc' = "done"
    /\ outcome' = [kind |-> "exit", msg |-> msg]

\* lines 104-120: defaults, arg.MustParse, cli.args = rawCli
Enter ==
    /\ pc = "start"
    /\ cli' = NewCli(raw)
    /\ godebug0' = godebug
    /\ outcome' = Running
    /\ pc' = "acl"
    /\ UNCHANGED <<intSize, callPc, callArg, callRet, raw, isTerminal,
                   godebug, launchEnv, run, first>>

CheckS3Acl ==
    /\ pc = "acl"
    /\ IF cli.args.S3Acl \in {"", "private", "public-read", "public-read-write",
                              "aws-exec-read", "authenticated-read",
                              "bucket-owner-read", "bucket-owner-full-control"}
       THEN pc' = "onfail" /\ UNCHANGED outcome
       ELSE Fail(MsgAcl)
    /\ UNCHANGED <<intSize, callPc, callArg, callRet, raw, isTerminal,
                   godebug, godebug0, cli, launchEnv, run, first>>

\* CheckOnFail without its default branch: an unknown value is taken as fatal
CheckOnFailLenient ==
    /\ pc = "onfail"
    /\ cli' = [cli EXCEPT !.OnFail =
                 IF cli.args.OnFail = "skip" THEN onFailSkip
                 ELSE IF cli.args.OnFail = "skipmissing" THEN onFailSkipMissing
                 ELSE onFailFatal]
    /\ pc' = "bandwidth"
    /\ UNCHANGED <<intSize, callPc, callArg, callRet, raw, isTerminal,
                   godebug, godebug0, outcome, launchEnv, run, first>>

CheckOnFail ==
    /\ pc = "onfail"
    /\ IF cli.args.OnFail = "fatal"
       THEN cli' = [cli EXCEPT !.OnFail = onFailFatal]
            /\ pc' = "bandwidth" /\ UNCHANGED outcome
       ELSE IF cli.args.OnFail = "skip"
       THEN cli' = [cli EXCEPT !.OnFail = onFailSkip]
            /\ pc' = "bandwidth" /\ UNCHANGED outcome
       ELSE IF cli.args.OnFail = "skipmissing"
       THEN cli' = [cli EXCEPT !.OnFail = onFailSkipMissing]
            /\ pc' = "bandwidth" /\ UNCHANGED outcome
       ELSE Fail(MsgOnFail) /\ UNCHANGED cli
    /\ UNCHANGED <<intSize, callPc, callArg, callRet, raw, isTerminal,
                   godebug, godebug0, launchEnv, run, first>>

\* lines 154-158 after parseBandwith returned r
RateLimitParsed(r) ==
    IF r.ok
    THEN cli' = [cli EXCEPT !.RateLimitBandwidth = r.rate]
         /\ pc' = "source" /\ UNCHANGED outcome
    ELSE Fail(MsgBandwidth) /\ UNCHANGED cli

ParseRateLimit ==
    /\ pc = "bandwidth"
    /\ RateLimitParsed(parseBandwith(cli.args.RateLimitBandwidth, intSize))
    /\ UNCHANGED <<intSize, callPc, callArg, callRet, raw, isTerminal,
                   godebug, godebug0, launchEnv, run, first>>

\* lines 160-163: the retry interval, then the source endpoint
\* lines 161-166 after parseConn returned c: return the error, or go on
ConnParsed(c, next) ==
    IF c.err # ""
    THEN pc' = "done" /\ outcome' = [kind |-> "error", msg |-> c.err]
    ELSE pc' = next /\ UNCHANGED outcome

\* lines 160-163 after parseConn returned c
SourceParsed(c) ==
    /\ cli' = [cli EXCEPT
                 !.S3RetryInterval = Mul(FromNat(cli.args.S3RetryInterval, 8),
                                         FromNat(Second, 8), 8),
                 !.Source = c.conn]
    /\ ConnParsed(c, "target")

ParseSource ==
    /\ pc = "source"
    /\ SourceParsed(parseConn(cli.args.Source))
    /\ UNCHANGED <<intSize, callPc, callArg, callRet, raw, isTerminal,
                   godebug, godebug0, launchEnv, run, first>>

\* lines 164-166 after parseConn returned c
TargetParsed(c) ==
    /\ cli' = [cli EXCEPT !.Target = c.conn]
    /\ ConnParsed(c, "tty")

ParseTarget ==
    /\ pc = "target"
    /\ TargetParsed(parseConn(cli.args.Target))
    /\ UNCHANGED <<intSize, callPc, callArg, callRet, raw, isTerminal,
                   godebug, godebug0, launchEnv, run, first>>

\* CheckTTY with the negation of the terminal test dropped
CheckTTYInverted ==
    /\ pc = "tty"
    /\ IF cli.args.ShowProgress /\ isTerminal
       THEN Fail(MsgTTY)
       ELSE pc' = "fileperm" /\ UNCHANGED outcome
    /\ UNCHANGED <<intSize, callPc, callArg, callRet, raw, isTerminal,
                   godebug, godebug0, cli, launchEnv, run, first>>

CheckTTY ==
    /\ pc = "tty"
    /\ IF cli.args.ShowProgress /\ ~isTerminal
       THEN Fail(MsgTTY)
       ELSE pc' = "fileperm" /\ UNCHANGED outcome
    /\ UNCHANGED <<intSize, callPc, callArg, callRet, raw, isTerminal,
                   godebug, godebug0, cli, launchEnv, run, first>>

\* lines 171-175 after strconv.ParseUint returned filePerm
FilePermParsed(filePerm) ==
    IF filePerm.err # ""
    THEN Fail(MsgFilePerm) /\ UNCHANGED cli
    ELSE cli' = [cli EXCEPT !.FSFilePerm = Truncate(filePerm.val, 4)]
         /\ pc' = "dirperm" /\ UNCHANGED outcome

ParseFilePerm ==
    /\ pc = "fileperm"
    /\ FilePermParsed(ParseUint32(cli.args.FSFilePerm, 8))
    /\ UNCHANGED <<intSize, callPc, callArg, callRet, raw, isTerminal,
                   godebug, godebug0, launchEnv, run, first>>

\* lines 177-181 after strconv.ParseUint returned dirPerm
DirPermParsed(dirPerm) ==
    IF dirPerm.err # ""
    THEN Fail(MsgDirPerm) /\ UNCHANGED cli
    ELSE cli' = [cli EXCEPT !.FSDirPerm = Truncate(dirPerm.val, 4)]
         /\ pc' = "http2" /\ UNCHANGED outcome

ParseDirPerm ==
    /\ pc = "dirperm"
    /\ DirPermParsed(ParseUint32(cli.args.FSDirPerm, 8))
    /\ UNCHANGED <<intSize, callPc, callArg, callRet, raw, isTerminal,
                   godebug, godebug0, launchEnv, run, first>>

\* SetDisableHTTP2 refusing to run when GODEBUG was already changed
SetDisableHTTP2Once ==
    /\ pc = "http2"
    /\ IF cli.args.DisableHTTP2 /\ godebug # launchEnv
       THEN Fail("GODEBUG already set") /\ UNCHANGED godebug
       ELSE /\ godebug' = IF cli.args.DisableHTTP2
                          THEN godebug \o "http2client=0"
                          ELSE godebug
            /\ pc' = "xattr"
            /\ UNCHANGED outcome
    /\ UNCHANGED <<intSize, callPc, callArg, callRet, raw, isTerminal,
                   godebug0, cli, launchEnv, run, first>>

SetDisableHTTP2 ==
    /\ pc = "http2"
    /\ godebug' = IF cli.args.DisableHTTP2
                  THEN godebug \o "http2client=0"
                  ELSE godebug
    /\ pc' = "xattr"
    /\ UNCHANGED <<intSize, callPc, callArg, callRet, raw, isTerminal,
                   godebug0, cli, outcome, launchEnv, run, first>>

\* CheckXattr testing for enabled instead of disabled extended attributes
CheckXattrInverted ==
    /\ pc = "xattr"
    /\ IF cli.args.FilterModified /\ ~cli.args.FSDisableXattr
       THEN Fail(MsgXattr)
       ELSE pc' = "done" /\ outcome' = [kind |-> "ok", msg |-> ""]
    /\ UNCHANGED <<intSize, callPc, callArg, callRet, raw, isTerminal,
                   godebug, godebug0, cli, launchEnv, run, first>>

\* lines 187-191: the last check, then the return
CheckXattr ==
    /\ pc = "xattr"
    /\ IF cli.args.FilterModified /\ cli.args.FSDisableXattr
       THEN Fail(MsgXattr)
       ELSE pc' = "done" /\ outcome' = [kind |-> "ok", msg |-> ""]
    /\ UNCHANGED <<intSize, callPc, callArg, callRet, raw, isTerminal,
                   godebug, godebug0, cli, launchEnv, run, first>>

\* GetCliArgs has returned to its caller, which calls it again on the same
\* command line in the same process
CallAgain ==
    /\ pc = "done"
    /\ outcome.kind # "exit"
    /\ run < MaxRuns
    /\ run' = run + 1
    /\ first' = IF run = 1 THEN [outcome |-> outcome, cli |-> cli] ELSE first
    /\ pc' = "start"
    /\ UNCHANGED <<intSize, callPc, callArg, callRet, raw, isTerminal,
                   godebug, godebug0, cli, outcome, launchEnv>>

\* p.Fail has ended the process; the same command line is launched again and
\* the new process inherits the environment of the launch
Relaunch ==
    /\ pc = "done"
    /\ outcome.kind = "exit"
    /\ run < MaxRuns
    /\ run' = run + 1
    /\ first' = IF run = 1 THEN [outcome |-> outcome, cli |-> cli] ELSE first
    /\ godebug' = launchEnv
    /\ pc' = "start"
    /\ UNCHANGED <<intSize, callPc, callArg, callRet, raw, isTerminal,
                   godebug0, cli, outcome, launchEnv>>

-----------------------------------------------------------------------------
(* Direct calls of the two parsers *)

CallParseConn ==
    /\ callPc = "parseConn"
    /\ callRet' = parseConn(callArg)
    /\ callPc' = "returned parseConn"
    /\ UNCHANGED <<intSize, callArg, raw, isTerminal, godebug, godebug0, pc,
                   cli, outcome, launchEnv, run, first>>

CallParseBandwith ==
    /\ callPc = "parseBandwith"
    /\ callRet' = parseBandwith(callArg, intSize)
    /\ callPc' = "returned parseBandwith"
    /\ UNCHANGED <<intSize, callArg, raw, isTerminal, godebug, godebug0, pc,
                   cli, outcome, launchEnv, run, first>>

-----------------------------------------------------------------------------
(* Inputs *)

\* the widths of int among the builds of the program
IntSizes == {32, 64}

S3AclSamples == {"", "public-read", "bogus"}
OnFailSamples == {"fatal", "skip", "skipmissing", "", "Fatal", " skip"}
BandwidthSamples == {<<"1", "0", "K">>, <<"1", "0", "X">>}
SourceSamples == {<<"s", "3", ":", "/", "/", "b", "/", "p">>, <<"1", ":", "a">>}
TargetSamples == {<<"f", "s", ":", "/", "/", "x">>, <<":">>}
FilePermSamples == {<<"0", "6", "4", "4">>, <<"a", "b", "c">>}
DirPermSamples == {<<"0", "7", "5", "5">>, <<"8">>}
GodebugSamples == {"", "gctrace=1"}

RawSamples ==
    [S3Acl : S3AclSamples, OnFail : OnFailSamples,
     RateLimitBandwidth : BandwidthSamples, S3RetryInterval : {5},
     Source : SourceSamples, Target : TargetSamples,
     ShowProgress : BOOLEAN, FSFilePerm : FilePermSamples,
     FSDirPerm : DirPermSamples, DisableHTTP2 : BOOLEAN,
     FilterModified : BOOLEAN, FSDisableXattr : BOOLEAN]

\* endpoint strings: a scheme prefix followed by a free-form part
ConnChars == {"a", "/", ":", "%", " ", "4", "#", "?", "@"}
ConnPrefixes ==
    {<<>>, <<"s", "3", ":">>, <<"s", "3", ":", "/", "/">>, <<"f", "s", ":">>,
     <<"f", "s", ":", "/", "/">>, <<"S", "3", ":", "/", "/">>}
ConnInputs == {p \o b : p \in ConnPrefixes, b \in Strings(ConnChars, MaxConnLen)}

\* bandwidth strings: free-form short ones, and long digit runs with a unit
BwChars == {"0", "1", "2", "9", " ", "K", "m", "G", "X"}
BwUnits == {<<>>, <<"K">>, <<"k">>, <<"M">>, <<"m">>, <<"G">>, <<"g">>}
BwLongRuns ==
    {<<"2", "1", "4", "7", "4", "8", "3", "6", "4", "7">>,
     <<"8", "5", "8", "9", "9", "3", "4", "5", "9", "2">>,
     <<"9", "2", "2", "3", "3", "7", "2", "0", "3", "6", "8", "5", "4", "7",
       "7", "5", "8", "0", "7">>,
     <<"9", "2", "2", "3", "3", "7", "2", "0", "3", "6", "8", "5", "4", "7",
       "7", "5", "8", "0", "8">>}
BwInputs ==
    Strings(BwChars, MaxBwLen) \cup {d \o u : d \in BwLongRuns, u \in BwUnits}

-----------------------------------------------------------------------------
(* Specifications *)

\* GetCliArgs is not running
IdleCli ==
    /\ raw = DefaultArgs
    /\ isTerminal = TRUE
    /\ godebug = ""
    /\ godebug0 = ""
    /\ launchEnv = ""
    /\ pc = "idle"
    /\ cli = NewCli(DefaultArgs)
    /\ outcome = Running
    /\ run = 0
    /\ first = [outcome |-> Running, cli |-> NewCli(DefaultArgs)]

\* the process is launched and is about to call GetCliArgs
Init ==
    /\ intSize \in IntSizes
    /\ callPc = "idle"
    /\ callArg = <<>>
    /\ callRet = <<>>
    /\ raw \in RawSamples
    /\ isTerminal \in BOOLEAN
    /\ launchEnv \in GodebugSamples
    /\ godebug = launchEnv
    /\ godebug0 = launchEnv
    /\ pc = "start"
    /\ cli = NewCli(DefaultArgs)
    /\ outcome = Running
    /\ run = 1
    /\ first = [outcome |-> Running, cli |-> NewCli(DefaultArgs)]

Next ==
    \/ Enter
    \/ CheckS3Acl
    \/ CheckOnFail
    \/ ParseRateLimit
    \/ ParseSource
    \/ ParseTarget
    \/ CheckTTY
    \/ ParseFilePerm
    \/ ParseDirPerm
    \/ SetDisableHTTP2
    \/ CheckXattr
    \/ CallAgain
    \/ Relaunch

Spec == Init /\ [][Next]_vars

\* parseConn applied to one endpoint string
InitConn ==
    /\ intSize \in IntSizes
    /\ callPc = "parseConn"
    /\ callArg \in ConnInputs
    /\ callRet = <<>>
    /\ IdleCli

NextConn == CallParseConn

SpecConn == InitConn /\ [][NextConn]_vars

\* parseBandwith applied to one bandwidth string
InitBandwith ==
    /\ intSize \in IntSizes
    /\ callPc = "parseBandwith"
    /\ callArg \in BwInputs
    /\ callRet = <<>>
    /\ IdleCli

NextBandwith == CallParseBandwith

SpecBandwith == InitBandwith /\ [][NextBandwith]_vars

-----------------------------------------------------------------------------
(* Properties *)

\* the checks of GetCliArgs that come before the terminal check all pass
PassesUpToTarget ==
    /\ raw.S3Acl \in {"", "private", "public-read", "public-read-write",
                      "aws-exec-read", "authenticated-read", "bucket-owner-read",
                      "bucket-owner-full-control"}
    /\ raw.OnFail \in {"fatal", "skip", "skipmissing"}
    /\ parseBandwith(raw.RateLimitBandwidth, intSize).ok
    /\ parseConn(raw.Source).err = ""
    /\ parseConn(raw.Target).err = ""

\* the checks of GetCliArgs that come before the xattr check all pass
PassesUpToDirPerm ==
    /\ PassesUpToTarget
    /\ ~(raw.ShowProgress /\ ~isTerminal)
    /\ ParseUint32(raw.FSFilePerm, 8).err = ""
    /\ ParseUint32(raw.FSDirPerm, 8).err = ""

\* C1 as stated: with progress requested and no terminal, GetCliArgs fails
\* with the RequiresTTY message whatever the other options are.
ProgressAlwaysRequiresTTY ==
    (pc = "done" /\ raw.ShowProgress /\ ~isTerminal)
        => outcome = [kind |-> "exit", msg |-> MsgTTY]

\* C1 amended: with progress requested and no terminal, GetCliArgs always
\* fails, and it fails with the RequiresTTY message exactly when the ACL, the
\* on-fail value, the bandwidth string and both endpoints are valid, whatever
\* the permission strings and the remaining flags are.
ProgressRequiresTTYInOrder ==
    (pc = "done" /\ raw.ShowProgress /\ ~isTerminal)
        => /\ outcome.kind \in {"exit", "error"}
           /\ (outcome = [kind |-> "exit", msg |-> MsgTTY]) <=> PassesUpToTarget

\* C1 witness: the RequiresTTY failure is reported although a later option
\* (the file permission string) is invalid too.
ProgressRejectedBeforePerms ==
    /\ pc = "done" /\ raw.ShowProgress /\ ~isTerminal
    /\ outcome = [kind |-> "exit", msg |-> MsgTTY]
    /\ raw.FSFilePerm = <<"a", "b", "c">>
    /\ raw.FilterModified /\ raw.FSDisableXattr

\* C2 as stated: with modified-only filtering requested and xattr disabled,
\* GetCliArgs fails with the FilterRequiresXattr message whatever the other
\* options are.
FilterAlwaysRequiresXattr ==
    (pc = "done" /\ raw.FilterModified /\ raw.FSDisableXattr)
        => outcome = [kind |-> "exit", msg |-> MsgXattr]

\* C2 amended: with modified-only filtering requested and xattr disabled,
\* GetCliArgs always fails, and it fails with the FilterRequiresXattr message
\* exactly when every earlier check (ACL, on-fail, bandwidth, both endpoints,
\* terminal, both permission strings) passes.
FilterRequiresXattrInOrder ==
    (pc = "done" /\ raw.FilterModified /\ raw.FSDisableXattr)
        => /\ outcome.kind \in {"exit", "error"}
           /\ (outcome = [kind |-> "exit", msg |-> MsgXattr]) <=> PassesUpToDirPerm

\* C2 witness: a call that passes every earlier check and is rejected for
\* the missing extended attributes.
FilterRejectedLast ==
    /\ pc = "done" /\ raw.FilterModified /\ raw.FSDisableXattr
    /\ outcome = [kind |-> "exit", msg |-> MsgXattr]
    /\ cli.FSDirPerm = <<237, 1, 0, 0>>

\* C3: a descriptor returned without error has a non-empty Bucket when its
\* Type is TypeS3 and an empty Bucket when its Type is TypeFS.
ConnInvariant ==
    (callPc = "returned parseConn" /\ callRet.err = "")
        => /\ callRet.conn.Type = "TypeS3" => callRet.conn.Bucket # <<>>
           /\ callRet.conn.Type = "TypeFS" => callRet.conn.Bucket = <<>>

\* C4: an endpoint string that does not start with the s3 or fs scheme is
\* accepted as a filesystem path, unchanged, and never yields an error.
SchemelessIsFilesystem ==
    (/\ callPc = "returned parseConn"
     /\ ~HasPrefix(ToLower(callArg), <<"s", "3", ":">>)
     /\ ~HasPrefix(ToLower(callArg), <<"f", "s", ":">>))
        => callRet = [err |-> "",
                      conn |-> [Type |-> "TypeFS", Bucket |-> <<>>,
                                Path |-> callArg]]

\* C5: "fs://" followed by any string X is accepted as a filesystem path
\* equal to X.
FsPrefixKeepsRemainder ==
    (/\ callPc = "returned parseConn"
     /\ HasPrefix(callArg, <<"f", "s", ":", "/", "/">>))
        => callRet = [err |-> "",
                      conn |-> [Type |-> "TypeFS", Bucket |-> <<>>,
                                Path |-> From(callArg, 5)]]

\* C6: parseBandwith returns (0, true) for the empty string and for every
\* string made only of whitespace.
BlankIsUnlimited ==
    (/\ callPc = "returned parseBandwith"
     /\ \A i \in 1..Len(callArg) : IsSpace(callArg[i]))
        => callRet = [rate |-> Zero(intSize \div 8), ok |-> TRUE]

\* C7: a run of digits of value n that fits an int, optionally followed by
\* one unit letter, yields (n * m, true) with the exact, non-negative
\* product; an input with any character that is not a digit, whitespace or
\* a unit letter yields ok = false.
RateIsExactProduct ==
    callPc = "returned parseBandwith" =>
        LET k == Cardinality({i \in 1..Len(callArg) :
                                \A j \in 1..i : IsDigitChar(callArg[j])})
            n == ParseDec(Upto(callArg, k), Zero(BigBytes))
            m == IF Len(callArg) = k THEN 1
                 ELSE IF callArg[k + 1] \in {"k", "K"} THEN 1024
                 ELSE IF callArg[k + 1] \in {"m", "M"} THEN 1024 * 1024
                 ELSE 1024 * 1024 * 1024
        IN /\ (/\ k >= 1
               /\ Len(callArg) \in {k, k + 1}
               /\ Len(callArg) = k + 1
                    => callArg[k + 1] \in {"k", "K", "m", "M", "g", "G"}
               /\ Less(n, MinOverflow(intSize)))
                => /\ callRet.ok
                   /\ ~IsNegative(callRet.rate)
                   /\ Truncate(callRet.rate, BigBytes)
                        = Mul(n, FromNat(m, BigBytes), BigBytes)
           /\ (\E i \in 1..Len(callArg) :
                  /\ ~IsDigitChar(callArg[i])
                  /\ ~IsSpace(callArg[i])
                  /\ callArg[i] \notin {"k", "K", "m", "M", "g", "G"})
                => ~callRet.ok

\* C8: the on-fail option is matched exactly: "fatal", "skip" and
\* "skipmissing" resolve to their actions, every other string makes
\* GetCliArgs fail (with the on-fail message once the ACL is valid), and no
\* call gets past the check with an OnFail that disagrees with the raw string.
OnFailExactMatch ==
    LET known == {"fatal", "skip", "skipmissing"}
        action == [v \in known |->
                     IF v = "fatal" THEN onFailFatal
                     ELSE IF v = "skip" THEN onFailSkip
                     ELSE onFailSkipMissing]
        passed ==
            \/ pc \in {"bandwidth", "source", "target", "tty", "fileperm",
                       "dirperm", "http2", "xattr"}
            \/ pc = "done" /\ outcome \notin {[kind |-> "exit", msg |-> MsgAcl],
                                              [kind |-> "exit", msg |-> MsgOnFail]}
    IN /\ passed => raw.OnFail \in known /\ cli.OnFail = action[raw.OnFail]
       /\ (pc = "done" /\ raw.OnFail \notin known)
            => /\ outcome.kind = "exit"
               /\ outcome.msg \in {MsgAcl, MsgOnFail}
               /\ raw.S3Acl \in {"", "private", "public-read",
                                 "public-read-write", "aws-exec-read",
                                 "authenticated-read", "bucket-owner-read",
                                 "bucket-owner-full-control"}
                    => outcome.msg = MsgOnFail

\* C8 witness: a call that succeeded with "skipmissing" resolved to
\* onFailSkipMissing.
SkipMissingResolved ==
    /\ pc = "done" /\ outcome.kind = "ok"
    /\ raw.OnFail = "skipmissing" /\ cli.OnFail = onFailSkipMissing

\* C9: a second call of GetCliArgs on the same raw options and terminal
\* state ends as the first one did: the same error, or the same argsParsed
\* field for field, whatever the first call did to the environment.
ResolutionIdempotent ==
    (run >= 2 /\ pc = "done")
        => outcome = first.outcome /\ cli = first.cli

\* C9 witness: a second successful call that started from an environment
\* the first call had changed.
SecondCallAfterEnvChange ==
    /\ run = 2 /\ pc = "done" /\ outcome.kind = "ok"
    /\ godebug0 # launchEnv
    /\ first.outcome.kind = "ok"

\* C10: whenever GetCliArgs fails, GODEBUG is as it was before the call.
FailureLeavesEnvUntouched ==
    (pc = "done" /\ outcome.kind \in {"exit", "error"}) => godebug = godebug0

====
